---- MODULE Spec2Model ----
(***************************************************************************)
(* Cycle-level model of i2cslave/targets/pipistrello_i2c.py:               *)
(*   - _CRG: the PLL parameter computation (Fraction arithmetic and the    *)
(*     two range assertions), the power-on counter `por`, and the two      *)
(*     AsyncResetSynchronizer instances that produce the resets of the     *)
(*     `por` and `sys` clock domains;                                      *)
(*   - Clock: the free-running divider that drives the clk100 pad;         *)
(*   - GPIOInOut: the tristate pad with its 2-bit CSRStorage and 1-bit     *)
(*     CSRStatus.                                                          *)
(*                                                                         *)
(* One Tick is one rising edge of cd_sys.clk (cd_por.clk is the same net,  *)
(* line 120): every synchronous register of both domains is updated from   *)
(* the values before the edge.  pll_lckd, user_btn and the external level  *)
(* on the gpio pad are asynchronous inputs that change between edges.      *)
(* Combinational signals are re-evaluated in every step.                   *)
(*                                                                         *)
(* Library primitives are modelled by what they elaborate to:              *)
(*   AsyncResetSynchronizer(cd, a): two flip-flops clocked by cd.clk with  *)
(*     asynchronous preset a and power-on value 1; the first has D = 0,    *)
(*     the second has D = the first and drives cd.rst.                     *)
(*   self.sync of a domain with a reset: at an edge with cd.rst = 1 every  *)
(*     register of the domain takes its reset value.                       *)
(*   Tristate(pad, o, oe, i): pad is driven to o while oe = 1 and is left  *)
(*     to the external side otherwise; i is the pad level.                 *)
(*   CSRStorage(n): an n-bit register of the sys domain, reset value 0,    *)
(*     loaded by a host write.  CSRStatus(n): the signal `status`.         *)
(***************************************************************************)
EXTENDS Integers, Naturals, Sequences, FiniteSets, TLC

VARIABLES
    \* asynchronous inputs
    pll_lckd,       \* o_LOCKED of the PLL_ADV instance            (line 101)
    user_btn,       \* platform.request("user_btn")                (line 116)
    pad_ext,        \* level the external side puts on the gpio pad
    \* _CRG registers
    por,            \* power-on counter                            (line 118)
    por_rst_meta,   \* first flip-flop of the cd_por synchronizer  (line 121)
    por_rst,        \* cd_por.rst                                  (line 121)
    sys_rst_meta,   \* first flip-flop of the cd_sys synchronizer  (line 122)
    sys_rst,        \* cd_sys.rst                                  (line 122)
    sdram_half_rst, \* cd_sdram_half.rst, driven by nothing        (line 70)
    \* _CRG combinational
    qualifiedReset, \* ~pll_lckd | (por > 0)                       (line 122)
    \* _CRG off-chip DDR clock
    clk_shifted,    \* level of clk_sdram_half_shifted            (line 132)
    clk_p,          \* Q of the ODDR2 driving clk.p               (line 139)
    clk_n,          \* Q of the ODDR2 driving clk.n               (line 144)
    \* Clock
    counter,        \* line 33
    sample,         \* line 31
    clk_pad,        \* pad of Clock                                (line 35)
    clk_status,     \* Clock._r.status                             (line 29)
    \* GPIOInOut
    storage,        \* GPIOInOut._w.storage, 2 bits                (line 50)
    gpio_pad,       \* level of the gpio pad                       (line 63)
    gpio_status,    \* GPIOInOut._r.status                         (line 51)
    \* observers (history variables, read by no register of the design)
    cyc,            \* clock edges since power-on, see CycEdge
    since,          \* clock edges since `sample` last inverted or was reset
    sinceRise,      \* clock edges since `sample` last rose, -1 before that
    lockedSince,    \* pll_lckd was true in every state since por reached 0
    relEdges,       \* clock edges (up to 2) since the cd_sys reset source was true
    btnEdges,       \* clock edges (up to 2) since user_btn was high or power-on
    ddr_edges,      \* edges of clk_sdram_half_shifted seen so far
    storage_alt,    \* storage of a second run whose host writes differ in bit 0
    gpio_status_alt,\* GPIOInOut._r.status of that second run
    \* _CRG.__init__ elaboration (FrequencySolver)
    clk_freq,       \* the clk_freq argument, a Fraction <<num, den>>
    crg_pc,         \* position inside _CRG.__init__
    pll_n,          \* n of line 80
    pll_d,          \* d of line 80
    created         \* hardware elements instantiated so far

hw_vars == <<pll_lckd, user_btn, pad_ext, por, por_rst_meta, por_rst,
             sys_rst_meta, sys_rst, sdram_half_rst, qualifiedReset, counter,
             sample, clk_pad, clk_status, storage, gpio_pad, gpio_status>>
ddr_vars == <<clk_shifted, clk_p, clk_n, ddr_edges>>
obs_vars == <<cyc, since, sinceRise, lockedSince, relEdges, btnEdges,
              storage_alt, gpio_status_alt>>
crg_vars == <<clk_freq, crg_pc, pll_n, pll_d, created>>
vars == <<hw_vars, ddr_vars, obs_vars, crg_vars>>

(***************************************************************************)
(* Small helpers                                                           *)
(***************************************************************************)
Min(a, b) == IF a < b THEN a ELSE b

RECURSIVE BitsFor(_)
\* migen's bits_for(n) for n >= 0: the width Signal(max=n+1) gets.
BitsFor(n) == IF n < 2 THEN 1 ELSE 1 + BitsFor(n \div 2)

(***************************************************************************)
(* _CRG: power-on counter and reset synchronizers (lines 116-122)          *)
(***************************************************************************)
\* por = Signal(max=1 << 11, reset=(1 << 11) - 1)
porBits == 11

counterMax == (2 ^ porBits) - 1

\* PorNext as it would be if the por domain had no reset (reset_less): the
\* counter starts to run at the first edge.
PorNext_NoDomainReset(p, rst) ==
    IF p # 0 THEN p - 1 ELSE p

\* PorNext without the If(por != 0, ...) guard: the counter wraps at 0
PorNext_Wrap(p, rst) ==
    IF rst THEN counterMax ELSE (p - 1) % (2 ^ porBits)

\* self.sync.por += If(por != 0, por.eq(por - 1)), in a domain whose reset
\* is cd_por.rst: at an edge with rst = 1 por takes its reset value.
PorNext(p, rst) ==
    IF rst THEN counterMax
    ELSE IF p # 0 THEN p - 1 ELSE p

\* SysAsyncReset with & written for |
SysAsyncReset_And(lckd, p) == (~lckd) /\ (p > 0)

\* SysAsyncReset without the lock term
SysAsyncReset_PorOnly(lckd, p) == p > 0

\* The asynchronous reset fed to the cd_sys synchronizer: ~pll_lckd | (por > 0)
SysAsyncReset(lckd, p) == (~lckd) \/ (p > 0)

\* SyncEdge of a synchronizer with a single flip-flop
SyncEdge_OneStage(meta, rst, preset) ==
    IF preset THEN <<TRUE, TRUE>> ELSE <<FALSE, FALSE>>

\* AsyncResetSynchronizer at a clock edge: <<meta', rst'>>.  `preset` is the
\* asynchronous input at or right after the edge; while it is high both
\* flip-flops are held at 1, otherwise the chain shifts a 0 in.
SyncEdge(meta, rst, preset) ==
    IF preset THEN <<TRUE, TRUE>> ELSE <<FALSE, meta>>

\* SyncAsync of a synchronizer whose flip-flops have no asynchronous preset
\* (a plain two-stage synchronizer): nothing moves between edges.
SyncAsync_NoPreset(meta, rst, preset) == <<meta, rst>>

\* SyncAsync of a synchronizer that also releases without a clock
SyncAsync_Transparent(meta, rst, preset) == <<preset, preset>>

\* AsyncResetSynchronizer between edges: the preset acts without a clock.
SyncAsync(meta, rst, preset) ==
    IF preset THEN <<TRUE, TRUE>> ELSE <<meta, rst>>

\* A register of the sys domain without its reset (reset_less)
SysSync_ResetLess(rst, reset_value, next) == next

\* A register of the sys domain at a clock edge: cd_sys.rst loads its reset
\* value, otherwise the self.sync statements apply.
SysSync(rst, reset_value, next) == IF rst THEN reset_value ELSE next

\* cd_sdram_half = ClockDomain(): its rst is driven by no statement and no
\* AsyncResetSynchronizer, so it keeps the reset value 0 of a Signal.
SdramHalfRst == FALSE

(***************************************************************************)
(* Off-chip DDR clock (lines 132-144)                                      *)
(***************************************************************************)
\* p_INIT=0 of both ODDR2 instances
oddr2Init == 0

\* ODDR2 with S = R = 0 and CE = 1, C0 = clk_sdram_half_shifted, C1 = ~C0:
\* Q takes D0 at a rising edge of C0 and D1 at a rising edge of C1.
Oddr2(d0, d1, level) == IF level = 1 THEN d0 ELSE d1

\* i_D0=1, i_D1=0, o_Q=clk.p
DdrClkP(level) == Oddr2(1, 0, level)

\* DdrClkN wired like the clk.p instance
DdrClkN_SameData(level) == Oddr2(1, 0, level)

\* i_D0=0, i_D1=1, o_Q=clk.n
DdrClkN(level) == Oddr2(0, 1, level)

\* number of edges of the shifted clock that are told apart
MaxDdrEdges == 60

(***************************************************************************)
(* Clock (lines 27-45)                                                     *)
(***************************************************************************)
\* ratio = int(83.3e6//100e3//2)
ratio == (83300000 \div 100000) \div 2

\* counter = Signal(max=ratio)
counterBits == BitsFor(ratio - 1)

\* ClockToggle comparing with ratio - 1
ClockToggle_RatioMinusOne(c) == c = ratio - 1

\* If(counter == ratio, ...
ClockToggle(c) == c = ratio

\* If(counter == ratio, counter.eq(0), ...).Else(counter.eq(counter + 1))
ClockCounterNext(c) ==
    IF ClockToggle(c) THEN 0 ELSE (c + 1) % (2 ^ counterBits)

\* If(counter == ratio, ..., sample.eq(~sample))
ClockSampleNext(c, s) ==
    IF ClockToggle(c) THEN 1 - s ELSE s

\* ClockStatusNext mirroring the value sample takes at this edge (no lag)
ClockStatusNext_NoLag(c, s) == IF ClockToggle(c) THEN 1 - s ELSE s

\* self.sync += self._r.status.eq(sample): the register takes the value
\* sample has before the edge
ClockStatusNext(c, s) == s

\* self.comb += pad.eq(sample)
ClockPad(s) == s

(***************************************************************************)
(* GPIOInOut (lines 48-64)                                                 *)
(***************************************************************************)
\* self.value.eq(self._w.storage[0])
GpioValue(st) == st % 2

\* self.oe.eq(self._w.storage[1])
GpioOe(st) == (st \div 2) % 2

\* TristatePad with the driver never enabled
TristatePad_NeverDrives(o, oe, ext) == ext

\* TristatePad with the driver always enabled
TristatePad_AlwaysDrives(o, oe, ext) == o

\* Tristate(pad, self.value, self.oe, self.r): the pad level
TristatePad(o, oe, ext) == IF oe = 1 THEN o ELSE ext

\* TristateIn reading back the driven value instead of the pad
TristateIn_ReadsDrive(pad, o) == o

\* Tristate(pad, self.value, self.oe, self.r): the input path, r = pad
TristateIn(pad, o) == pad

\* self._r.status.eq(self.r)
GpioStatus(r) == r

\* CSRStorage(2): reset value 0, loaded by a host write <<v>>; <<>> is a
\* cycle without a write.
StorageNext(st, rst, w) ==
    IF rst THEN 0
    ELSE IF w = <<>> THEN st ELSE w[1]

\* what the host can do at one edge
HostWrites == {<<>>} \cup {<<v>> : v \in 0..3}

\* the write of the second run: same cycle, same outputEnable bit, any
\* driveValue bit
AltWrites(w) ==
    IF w = <<>> THEN {<<>>}
    ELSE {<<2 * GpioOe(w[1]) + b>> : b \in 0..1}

(***************************************************************************)
(* Observers                                                               *)
(***************************************************************************)
cycCap == counterMax + 3

sinceCap == 2 * ratio + 4

\* cyc counts the clock edges since power-on for as long as the reset button
\* has stayed released; a press ends the start-up window (cyc = cycCap).
CycEdge(c) == Min(c + 1, cycCap)

SinceEdge(n, rst, s, s2) ==
    IF rst \/ s2 # s THEN 0 ELSE Min(n + 1, sinceCap)

SinceRiseEdge(n, rst, s, s2) ==
    IF rst THEN -1
    ELSE IF s = 0 /\ s2 = 1 THEN 0
    ELSE IF n = -1 THEN -1 ELSE Min(n + 1, sinceCap)

LockedSinceNext(ls, p, p2, lckd2) ==
    IF p2 # 0 THEN TRUE
    ELSE IF p # 0 THEN lckd2 ELSE ls /\ lckd2

\* edges since `high` (an asynchronous reset source) was last true, up to 2
LowEdgesEdge(n, high) == IF high THEN 0 ELSE Min(n + 1, 2)

LowEdgesAsync(n, high) == IF high THEN 0 ELSE n

(***************************************************************************)
(* Initial state of the hardware: the register values the bitstream loads  *)
(***************************************************************************)
HwInit ==
    /\ pll_lckd \in BOOLEAN
    /\ user_btn \in BOOLEAN
    /\ pad_ext \in 0..1
    /\ por = counterMax
    /\ por_rst_meta = TRUE
    /\ por_rst = TRUE
    /\ sys_rst_meta = TRUE
    /\ sys_rst = TRUE
    /\ sdram_half_rst = SdramHalfRst
    /\ qualifiedReset = SysAsyncReset(pll_lckd, por)
    /\ counter = 0
    /\ sample = 0
    /\ clk_pad = ClockPad(sample)
    /\ clk_status = 0
    /\ storage = 0
    /\ gpio_pad = TristatePad(GpioValue(storage), GpioOe(storage), pad_ext)
    /\ gpio_status = GpioStatus(TristateIn(gpio_pad, GpioValue(storage)))

ObsInit ==
    /\ cyc = IF user_btn THEN cycCap ELSE 0
    /\ since = 0
    /\ sinceRise = -1
    /\ lockedSince = TRUE
    /\ relEdges = 0
    /\ btnEdges = 0
    /\ storage_alt = 0
    /\ gpio_status_alt = gpio_status

DdrInit ==
    /\ clk_shifted \in 0..1
    /\ clk_p = oddr2Init
    /\ clk_n = oddr2Init
    /\ ddr_edges = 0

(***************************************************************************)
(* Combinational settle of the GPIO pad, used by every step                *)
(***************************************************************************)
GpioSettle ==
    /\ gpio_pad' = TristatePad(GpioValue(storage'), GpioOe(storage'), pad_ext')
    /\ gpio_status' = GpioStatus(TristateIn(gpio_pad', GpioValue(storage')))
    /\ gpio_status_alt' =
         GpioStatus(TristateIn(TristatePad(GpioValue(storage_alt'),
                                           GpioOe(storage_alt'), pad_ext'),
                               GpioValue(storage_alt')))

(***************************************************************************)
(* One rising edge of cd_sys.clk / cd_por.clk                              *)
(***************************************************************************)
Tick(w, w2) ==
    /\ UNCHANGED <<pll_lckd, user_btn, pad_ext>>
    \* cd_por
    /\ por' = PorNext(por, por_rst)
    /\ por_rst_meta' = SyncEdge(por_rst_meta, por_rst, user_btn)[1]
    /\ por_rst' = SyncEdge(por_rst_meta, por_rst, user_btn)[2]
    \* cd_sys reset
    /\ qualifiedReset' = SysAsyncReset(pll_lckd', por')
    /\ sys_rst_meta' =
         SyncEdge(sys_rst_meta, sys_rst, qualifiedReset \/ qualifiedReset')[1]
    /\ sys_rst' =
         SyncEdge(sys_rst_meta, sys_rst, qualifiedReset \/ qualifiedReset')[2]
    \* Clock, in cd_sys
    /\ counter' = SysSync(sys_rst, 0, ClockCounterNext(counter))
    /\ sample' = SysSync(sys_rst, 0, ClockSampleNext(counter, sample))
    /\ clk_status' = SysSync(sys_rst, 0, ClockStatusNext(counter, sample))
    /\ clk_pad' = ClockPad(sample')
    \* GPIOInOut, in cd_sys
    /\ storage' = StorageNext(storage, sys_rst, w)
    /\ storage_alt' = StorageNext(storage_alt, sys_rst, w2)
    /\ GpioSettle
    \* observers
    /\ cyc' = CycEdge(cyc)
    /\ since' = SinceEdge(since, sys_rst, sample, sample')
    /\ sinceRise' = SinceRiseEdge(sinceRise, sys_rst, sample, sample')
    /\ lockedSince' = LockedSinceNext(lockedSince, por, por', pll_lckd')
    /\ relEdges' = LowEdgesEdge(relEdges, qualifiedReset \/ qualifiedReset')
    /\ btnEdges' = LowEdgesEdge(btnEdges, user_btn)
    /\ sdram_half_rst' = SdramHalfRst
    /\ UNCHANGED <<ddr_vars, crg_vars>>

ClockEdge == \E w \in HostWrites : \E w2 \in AltWrites(w) : Tick(w, w2)

(***************************************************************************)
(* Asynchronous inputs                                                     *)
(***************************************************************************)
\* the PLL gains or loses lock
LockChange ==
    /\ pll_lckd' = ~pll_lckd
    /\ qualifiedReset' = SysAsyncReset(pll_lckd', por)
    /\ sys_rst_meta' = SyncAsync(sys_rst_meta, sys_rst, qualifiedReset')[1]
    /\ sys_rst' = SyncAsync(sys_rst_meta, sys_rst, qualifiedReset')[2]
    /\ lockedSince' = LockedSinceNext(lockedSince, por, por, pll_lckd')
    /\ relEdges' = LowEdgesAsync(relEdges, qualifiedReset')
    /\ UNCHANGED <<user_btn, pad_ext, por, por_rst_meta, por_rst, counter,
                   sample, clk_pad, clk_status, storage, gpio_pad, gpio_status,
                   sdram_half_rst>>
    /\ UNCHANGED <<cyc, since, sinceRise, btnEdges, storage_alt,
                   gpio_status_alt>>
    /\ UNCHANGED <<ddr_vars, crg_vars>>

\* the reset button is pressed or released
ButtonChange ==
    /\ user_btn' = ~user_btn
    /\ por_rst_meta' = SyncAsync(por_rst_meta, por_rst, user_btn')[1]
    /\ por_rst' = SyncAsync(por_rst_meta, por_rst, user_btn')[2]
    /\ cyc' = IF user_btn' THEN cycCap ELSE cyc
    /\ btnEdges' = LowEdgesAsync(btnEdges, user_btn')
    /\ UNCHANGED <<pll_lckd, pad_ext, por, sys_rst_meta, sys_rst,
                   qualifiedReset, counter, sample, clk_pad, clk_status,
                   storage, gpio_pad, gpio_status, sdram_half_rst>>
    /\ UNCHANGED <<since, sinceRise, lockedSince, relEdges, storage_alt,
                   gpio_status_alt>>
    /\ UNCHANGED <<ddr_vars, crg_vars>>

\* the external side changes the level it supplies to the gpio pad
PadChange ==
    /\ pad_ext' = 1 - pad_ext
    /\ UNCHANGED <<storage, storage_alt>>
    /\ GpioSettle
    /\ UNCHANGED <<pll_lckd, user_btn, por, por_rst_meta, por_rst,
                   sys_rst_meta, sys_rst, qualifiedReset, counter, sample,
                   clk_pad, clk_status, sdram_half_rst>>
    /\ UNCHANGED <<cyc, since, sinceRise, lockedSince, relEdges, btnEdges>>
    /\ UNCHANGED <<ddr_vars, crg_vars>>

\* an edge of clk_sdram_half_shifted (tap 3 of the PLL); the two ODDR2 share
\* no signal with the sys domain
ShiftedClkEdge ==
    /\ clk_shifted' = 1 - clk_shifted
    /\ clk_p' = DdrClkP(clk_shifted')
    /\ clk_n' = DdrClkN(clk_shifted')
    /\ ddr_edges' = Min(ddr_edges + 1, MaxDdrEdges)
    /\ UNCHANGED <<hw_vars, obs_vars, crg_vars>>

(***************************************************************************)
(* _CRG.__init__: the PLL parameters (lines 69-144)                        *)
(*                                                                         *)
(* A Fraction is <<numerator, denominator>> in lowest terms with a         *)
(* positive denominator, as fractions.Fraction keeps it.  Frequencies are  *)
(* written in kHz (1 MHz = 1000), so that every product stays inside TLC's *)
(* 32-bit integers; Fraction arithmetic is exact, so the unit changes      *)
(* neither n and d nor the outcome of the comparisons.                     *)
(***************************************************************************)
Abs(x) == IF x < 0 THEN -x ELSE x

RECURSIVE GCD(_, _)
GCD(a, b) == IF b = 0 THEN a ELSE GCD(b, a % b)

\* Fraction(a, b) for integers a, b with b > 0
Frac(a, b) ==
    LET g == GCD(Abs(a), b) IN
    IF g = 0 THEN <<0, 1>> ELSE <<a \div g, b \div g>>

FracOfInt(k) == <<k, 1>>

FracAdd(x, y) == Frac(x[1] * y[2] + y[1] * x[2], x[2] * y[2])

\* Fraction.__mul__: cross-cancel, then multiply
FracMul(x, y) ==
    LET g1 == GCD(Abs(x[1]), y[2])
        g2 == GCD(Abs(y[1]), x[2])
        a == IF g1 = 0 THEN 0 ELSE (x[1] \div g1) * (y[1] \div g2)
        b == IF g1 = 0 THEN 1 ELSE (y[2] \div g1) * (x[2] \div g2)
    IN Frac(a, b)

\* Fraction(x, y) and x / y for Fractions x >= 0 and y > 0
FracDiv(x, y) == FracMul(x, <<y[2], y[1]>>)

\* x <= y
FracLe(x, y) == x[1] * y[2] <= y[1] * x[2]

perMHz == 10 ^ 3

\* f0 = Fraction(50, 1)*1000000
f0 == FracMul(Frac(50, 1), FracOfInt(perMHz))

\* p = 12
p == 12

\* SolveF with the floor division clk_freq*p // f0 instead of a Fraction
SolveF_Floor(clk) ==
    LET f == FracDiv(FracMul(clk, FracOfInt(p)), f0) IN <<f[1] \div f[2], 1>>

\* SolveF with the factor p left out
SolveF_NoP(clk) == FracDiv(clk, f0)

\* f = Fraction(clk_freq*p, f0)
SolveF(clk) == FracDiv(FracMul(clk, FracOfInt(p)), f0)

\* n, d = f.numerator, f.denominator
SolveN(clk) == SolveF(clk)[1]

SolveD(clk) == SolveF(clk)[2]

\* assert 19e6 <= f0/d <= 500e6  # pfd
PfdOk(n, d) ==
    LET pfd == FracDiv(f0, FracOfInt(d)) IN
    /\ FracLe(FracOfInt(19 * perMHz), pfd)
    /\ FracLe(pfd, FracOfInt(500 * perMHz))

\* VcoOk with the upper limit left out
VcoOk_NoUpper(n, d) ==
    LET vco == FracDiv(FracMul(f0, FracOfInt(n)), FracOfInt(d)) IN
    FracLe(FracOfInt(400 * perMHz), vco)

\* assert 400e6 <= f0*n/d <= 1080e6  # vco
VcoOk(n, d) ==
    LET vco == FracDiv(FracMul(f0, FracOfInt(n)), FracOfInt(d)) IN
    /\ FracLe(FracOfInt(400 * perMHz), vco)
    /\ FracLe(vco, FracOfInt(1080 * perMHz))

\* clk_freq=(83 + Fraction(1, 3))*1000*1000, the default of BaseSoC.__init__
DefaultClkFreq ==
    FracMul(FracAdd(FracOfInt(83), Frac(1, 3)), FracOfInt(perMHz))

\* lines 69-72: the four ClockDomain objects
Domains == {"cd_sys", "cd_sdram_half", "cd_sdram_full_wr", "cd_sdram_full_rd"}

\* lines 84-144: the primitives, the por domain and the reset synchronizers
Elements == {"IBUFG", "BUFIO2", "PLL_ADV", "BUFG_sys", "cd_por", "ars_por",
             "ars_sys", "BUFG_sdram_half", "BUFPLL", "BUFG_shifted",
             "ODDR2_p", "ODDR2_n"}

\* bounds of the clk_freq values tried: f0*j/(p*b), j in 0..MaxNum, b in 1..MaxDen
MaxNum == 48

MaxDen == 4

ClkFreqs ==
    {FracDiv(FracMul(f0, Frac(j, b)), FracOfInt(p)) :
        j \in 0..MaxNum, b \in 1..MaxDen}

\* lines 69-75
CrgDomains ==
    /\ crg_pc = "start"
    /\ created' = created \cup Domains
    /\ crg_pc' = "solve"
    /\ UNCHANGED <<clk_freq, pll_n, pll_d>>
    /\ UNCHANGED <<hw_vars, ddr_vars, obs_vars>>

\* lines 77-80
CrgSolve ==
    /\ crg_pc = "solve"
    /\ pll_n' = SolveN(clk_freq)
    /\ pll_d' = SolveD(clk_freq)
    /\ crg_pc' = "pfd"
    /\ UNCHANGED <<clk_freq, created>>
    /\ UNCHANGED <<hw_vars, ddr_vars, obs_vars>>

\* line 81
CrgCheckPfd ==
    /\ crg_pc = "pfd"
    /\ crg_pc' = IF PfdOk(pll_n, pll_d) THEN "vco" ELSE "error"
    /\ UNCHANGED <<clk_freq, pll_n, pll_d, created>>
    /\ UNCHANGED <<hw_vars, ddr_vars, obs_vars>>

\* line 82
CrgCheckVco ==
    /\ crg_pc = "vco"
    /\ crg_pc' = IF VcoOk(pll_n, pll_d) THEN "build" ELSE "error"
    /\ UNCHANGED <<clk_freq, pll_n, pll_d, created>>
    /\ UNCHANGED <<hw_vars, ddr_vars, obs_vars>>

\* lines 84-144
CrgBuild ==
    /\ crg_pc = "build"
    /\ created' = created \cup Elements
    /\ crg_pc' = "done"
    /\ UNCHANGED <<clk_freq, pll_n, pll_d>>
    /\ UNCHANGED <<hw_vars, ddr_vars, obs_vars>>

(***************************************************************************)
(* Specifications                                                          *)
(***************************************************************************)
\* The running design, built with the default clk_freq.
Init ==
    /\ HwInit
    /\ ObsInit
    /\ DdrInit
    /\ clk_shifted = 0
    /\ clk_freq = DefaultClkFreq
    /\ crg_pc = "done"
    /\ pll_n = SolveN(clk_freq)
    /\ pll_d = SolveD(clk_freq)
    /\ created = Domains \cup Elements

Next ==
    \/ ClockEdge
    \/ LockChange
    \/ ButtonChange
    \/ PadChange

Spec == Init /\ [][Next]_vars

\* The elaboration of _CRG for each clk_freq tried; the hardware does not
\* run yet.
SolverInit ==
    /\ HwInit
    /\ ObsInit
    /\ DdrInit
    /\ clk_shifted = 0
    /\ clk_freq \in ClkFreqs
    /\ crg_pc = "start"
    /\ pll_n = 0
    /\ pll_d = 0
    /\ created = {}

SolverNext ==
    \/ CrgDomains
    \/ CrgSolve
    \/ CrgCheckPfd
    \/ CrgCheckVco
    \/ CrgBuild

SolverSpec == SolverInit /\ [][SolverNext]_vars

\* The off-chip DDR clock output: the shifted clock runs, from either level.
DdrInit0 ==
    /\ HwInit
    /\ ObsInit
    /\ DdrInit
    /\ clk_freq = DefaultClkFreq
    /\ crg_pc = "done"
    /\ pll_n = SolveN(clk_freq)
    /\ pll_d = SolveD(clk_freq)
    /\ created = Domains \cup Elements

DdrNext == ShiftedClkEdge

DdrSpec == DdrInit0 /\ [][DdrNext]_vars

\* A clock edge of the design alone: the comparison run receives the same
\* host write, so storage_alt follows storage.
HostClockEdge == \E w \in HostWrites : Tick(w, w)

FairNext ==
    \/ HostClockEdge
    \/ LockChange
    \/ ButtonChange
    \/ PadChange

\* The running design with a core clock that never stops.
FairSpec == Init /\ [][FairNext]_vars /\ WF_vars(HostClockEdge)

(***************************************************************************)
(* Properties                                                              *)
(***************************************************************************)

\* A step that changes none of the asynchronous inputs: each of LockChange,
\* ButtonChange and PadChange changes one, so a step of Spec that changes
\* anything and satisfies this is a clock edge.
AtClockEdge == UNCHANGED <<pll_lckd, user_btn, pad_ext>>

\* C1: start-up hold.  For every trace of pll_lckd (lock from cycle 0
\* included), counted from power-on with the reset button released,
\* qualifiedReset is true on each of the first counterMax + 1 = 2048 cycles
\* (cycles 0..counterMax).
C1_StartupHold ==
    /\ counterMax = 2047
    /\ (cyc <= counterMax => qualifiedReset)

\* the 2048th cycle, with the PLL locked and the reset still held
C1_Witness ==
    /\ cyc = counterMax
    /\ pll_lckd
    /\ qualifiedReset

\* C2 as stated: qualifiedReset goes from true to false only where pll_lckd
\* has been true in every state since the power-on counter reached 0.
C2_ReleaseOnlyIfLockedSinceExpiry ==
    [][(qualifiedReset /\ ~qualifiedReset') => lockedSince']_vars

\* C2 amended: qualifiedReset goes from true to false only in a step after
\* which the power-on counter is 0 and pll_lckd is true; a lock that dropped
\* and returned after the counter expired does lead to a release.
C2_ReleaseOnlyWhenExpiredAndLocked ==
    [][(qualifiedReset /\ ~qualifiedReset') => (por' = 0 /\ pll_lckd')]_vars

\* released, although the lock was lost at some point after the counter expired
C2_Witness ==
    /\ ~qualifiedReset
    /\ ~lockedSince

\* C3: re-assertion on lock loss.  In the very step in which pll_lckd goes
\* from true to false, qualifiedReset and cd_sys.rst are true, whatever the
\* power-on counter holds.
C3_ResetOnLockLoss ==
    [][(pll_lckd /\ ~pll_lckd') => (qualifiedReset' /\ sys_rst')]_vars

\* lock lost while the core domain was running: the counter has expired, the
\* reset is asserted and the Clock divider has not yet seen the reset edge
C3_Witness ==
    /\ ~pll_lckd
    /\ por = 0
    /\ sys_rst
    /\ counter > 0

\* C4: toggle period.  With ratio = 416 and no reset applied, sample inverts
\* exactly in the step that is the 417th clock edge since the last inversion
\* (or since reset), counter having run through 0..416, and in no other step.
C4_TogglePeriod ==
    [][ /\ ratio = 416
        /\ counter = since
        /\ counter <= ratio
        /\ ~sys_rst =>
              ((sample' # sample) <=> (since = ratio /\ since' = 0))
      ]_vars

\* sample fell exactly ratio + 1 edges after it rose
C4_Witness ==
    /\ sample = 0
    /\ since = 0
    /\ sinceRise = ratio + 1

\* C5: status lag.  After every clock edge at which the reset is not applied
\* the status register holds the value the pad (= sample) had before the
\* edge; so it differs from the pad right after an inversion and agrees with
\* it after every other edge.
C5_StatusLag ==
    [][(AtClockEdge /\ ~sys_rst) =>
          /\ clk_pad = sample
          /\ clk_status' = clk_pad
          /\ (clk_status' # clk_pad') <=> (sample' # sample)
      ]_vars

\* the cycle right after an inversion: the pad is 1, the status still 0
C5_Witness ==
    /\ clk_pad = 1
    /\ clk_status = 0
    /\ since = 0

\* C6 as stated: ratio = 416 and one full period of the output (rise to
\* rise) lasts exactly 2 * ratio = 832 clock edges.
C6_PeriodIsTwiceRatio ==
    [][ /\ ratio = 416
        /\ (sample = 0 /\ sample' = 1 /\ sinceRise # -1) =>
              sinceRise + 1 = 2 * ratio
      ]_vars

\* C7: output mode.  Whenever bit 1 of the control register is 1, the pad
\* and the status register equal bit 0, whatever the external side supplies.
C7_OutputMode ==
    GpioOe(storage) = 1 =>
        /\ gpio_pad = GpioValue(storage)
        /\ gpio_status = GpioValue(storage)

\* the pad is driven against the level the external side supplies
C7_Witness ==
    /\ GpioOe(storage) = 1
    /\ pad_ext # GpioValue(storage)

\* C8: input mode.  Whenever outputEnable is 0 the status register equals
\* the external level, and it equals the status register of the second run,
\* whose host writes differ from this run's in the driveValue bit only.
C8_InputMode ==
    GpioOe(storage) = 0 =>
        /\ gpio_status = pad_ext
        /\ GpioOe(storage_alt) = 0
        /\ gpio_status = gpio_status_alt

\* input mode, the two runs hold different driveValue bits, and this run's
\* differs from the external level
C8_Witness ==
    /\ GpioOe(storage) = 0
    /\ GpioValue(storage) # GpioValue(storage_alt)
    /\ GpioValue(storage) # pad_ext

\* C9: status mirror.  In every state, for both values of outputEnable, the
\* status register equals the level of the pad in the same state.
C9_StatusMirror ==
    gpio_status = gpio_pad

\* input mode with the stored driveValue opposite to the pad level
C9_Witness ==
    /\ GpioOe(storage) = 0
    /\ GpioValue(storage) = 1
    /\ gpio_pad = 0

\* C10: exactness.  For every clk_freq that passed both range checks, with
\* p = 12, clk_freq * p * d = f0 * n exactly and gcd(n, d) = 1.
C10_Exact ==
    crg_pc \in {"build", "done"} =>
        /\ p = 12
        /\ pll_d > 0
        /\ clk_freq[1] * p * pll_d * f0[2] = f0[1] * pll_n * clk_freq[2]
        /\ GCD(pll_n, pll_d) = 1

\* an accepted clk_freq whose fraction has a denominator other than 1
C10_Witness ==
    /\ crg_pc = "done"
    /\ pll_d = 2
    /\ pll_n = 17

\* the two ranges of C11 in integers (kHz): 19 MHz <= f0/d <= 500 MHz and
\* 400 MHz <= f0*n/d <= 1080 MHz, for d > 0
C11_InRange ==
    /\ pll_d > 0
    /\ 19 * perMHz * pll_d * f0[2] <= f0[1]
    /\ f0[1] <= 500 * perMHz * pll_d * f0[2]
    /\ 400 * perMHz * pll_d * f0[2] <= f0[1] * pll_n
    /\ f0[1] * pll_n <= 1080 * perMHz * pll_d * f0[2]

\* C11: rejection.  A clk_freq whose n, d lie outside either range never
\* gets past the two assertions: _CRG.__init__ ends in the error outcome,
\* and no primitive, por domain or reset synchronizer of lines 84-144 exists
\* unless both ranges hold.
C11_RejectBeforeHardware ==
    /\ crg_pc \in {"build", "done"} => C11_InRange
    /\ created \cap Elements # {} => (crg_pc = "done" /\ C11_InRange)
    /\ crg_pc = "error" => (~C11_InRange /\ created \cap Elements = {})
    /\ crg_pc = "vco" =>
          /\ pll_d > 0
          /\ 19 * perMHz * pll_d * f0[2] <= f0[1]
          /\ f0[1] <= 500 * perMHz * pll_d * f0[2]

\* rejected by the upper VCO limit alone: 50 MHz * 22 = 1100 MHz
C11_Witness ==
    /\ crg_pc = "error"
    /\ pll_d = 1
    /\ pll_n = 22
    /\ created = Domains

\* C12: reference scenario.  clk_freq = 250000000/3 Hz (83 1/3 MHz) with
\* f0 = 50 MHz and p = 12 gives n = 20 and d = 1, and both assertions pass.
C12_ReferenceScenario ==
    /\ DefaultClkFreq = <<250000, 3>>
    /\ f0 = <<50000, 1>>
    /\ p = 12
    /\ (clk_freq = DefaultClkFreq /\ crg_pc \notin {"start", "solve"}) =>
          /\ pll_n = 20
          /\ pll_d = 1
          /\ crg_pc # "error"

\* the reference configuration, elaborated to the end
C12_Witness ==
    /\ clk_freq = DefaultClkFreq
    /\ crg_pc = "done"
    /\ created = Domains \cup Elements

\* C13 as stated: in every state the reset applied to the core-logic domain,
\* cd_sys.rst, equals (por > 0 or not pll_lckd) of that state.
C13_CoreResetIsExpression ==
    sys_rst <=> (por > 0 \/ ~pll_lckd)

\* C13 amended: the source of the core reset, qualifiedReset, equals
\* (por > 0 or not pll_lckd) in every state; cd_sys.rst is true whenever that
\* expression is true and stays true until the second clock edge after the
\* expression became false, then it is false.
C13_CoreResetFollowsExpression ==
    /\ qualifiedReset <=> (por > 0 \/ ~pll_lckd)
    /\ (por > 0 \/ ~pll_lckd) => sys_rst
    /\ sys_rst <=> relEdges < 2

\* counter expired and PLL locked, yet the core domain is still in reset
C13_Witness ==
    /\ por = 0
    /\ pll_lckd
    /\ sys_rst
    /\ relEdges = 1

\* C14: power-on counter lifecycle.  por starts at 2047; at a clock edge
\* outside the system reset it goes down by exactly 1 while nonzero and
\* stays 0 once 0; a change of pll_lckd never changes it; it is reloaded to
\* 2047 only at a clock edge at which cd_por.rst is asserted, and cd_por.rst
\* is asserted only at power-on and from a press of the reset button until
\* the second clock edge after its release.
C14_CounterLifecycle ==
    /\ por = counterMax
    /\ counterMax = 2047
    /\ [][ /\ (AtClockEdge /\ ~por_rst) => por' = IF por > 0 THEN por - 1 ELSE 0
           /\ (AtClockEdge /\ por_rst) => por' = counterMax
           /\ ~AtClockEdge => por' = por
           /\ pll_lckd' # pll_lckd => (por' = por /\ por_rst' = por_rst)
           /\ por_rst' <=> btnEdges' < 2
         ]_vars

\* the counter is 0 and still 0 after the lock was lost and has returned,
\* the button never having been pressed
C14_Witness ==
    /\ por = 0
    /\ pll_lckd
    /\ ~lockedSince
    /\ cyc < cycCap

\* C15: recovery from lock loss.  The core domain is in reset in every state
\* in which the synthesizer is not locked (so also on every cycle after the
\* power-on counter has reached 0); a released core reset stays released
\* across every step after which lock holds and the counter is still 0; and
\* if from some point on lock holds and the reset button stays released, the
\* core reset is eventually deasserted for good.
C15_Recovery ==
    /\ [](~pll_lckd => sys_rst)
    /\ [][(~sys_rst /\ pll_lckd' /\ por' = 0) => ~sys_rst']_vars
    /\ (<>[](pll_lckd /\ ~user_btn)) => <>[](~sys_rst)

\* The counter has expired, lock was lost and has returned for two edges,
\* and the core reset is released again.
C15_Witness ==
    /\ por = 0
    /\ pll_lckd
    /\ ~lockedSince
    /\ relEdges >= 2
    /\ ~sys_rst

\* C16: reset fan-out.  Whenever the power-on counter is nonzero or the
\* synthesizer is not locked, the reset of the memory half-rate domain is
\* asserted as well as the reset of the core domain.
C16_FanOut ==
    (por > 0 \/ ~pll_lckd) => (sys_rst /\ sdram_half_rst)

\* C17: reset synchronization policy.  In the state after any step in which
\* the source of the core reset (not locked or counter > 0) is true the core
\* reset is asserted, whether or not the step was a clock edge; the core
\* reset goes from asserted to deasserted only in a clock-edge step.
C17_AssertAsyncReleaseSync ==
    [][ /\ qualifiedReset' => sys_rst'
        /\ (~AtClockEdge /\ ~qualifiedReset) => (sys_rst' <=> (sys_rst \/ qualifiedReset'))
        /\ (sys_rst /\ ~sys_rst') => (AtClockEdge /\ ~qualifiedReset')
      ]_vars

\* Lock was lost while the bit clock output was high: the core reset is
\* already asserted although no clock edge has yet cleared sample or the
\* counter.
C17_Witness ==
    /\ sys_rst
    /\ por = 0
    /\ ~pll_lckd
    /\ relEdges = 0
    /\ sample = 1
    /\ counter > 0

\* C18: counter range of the bit clock.  In every reachable state the counter
\* is in the half-open range [0, ratio), that is 0 <= counter <= ratio - 1.
C18_CounterRange ==
    /\ ratio - 1 = 415
    /\ counter \in 0..(ratio - 1)

\* C19: the bit clock under reset.  After every clock edge at which the core
\* reset is asserted, counter, sample, the status register and the pad are 0;
\* no step taken while the reset is asserted raises the pad; and the pad
\* rises only at an edge outside reset at which the counter has counted the
\* ratio edges from 0 up to ratio.
C19_ClockUnderReset ==
    [][ /\ (AtClockEdge /\ sys_rst) =>
              (counter' = 0 /\ sample' = 0 /\ clk_status' = 0 /\ clk_pad' = 0)
        /\ sys_rst => clk_pad' <= clk_pad
        /\ (clk_pad' # clk_pad /\ ~sys_rst) =>
              (AtClockEdge /\ counter = ratio /\ since = ratio)
      ]_vars

\* Lock was lost after the counter had expired and has returned; one clock
\* edge has since been taken under reset and the divider is cleared.
C19_Witness ==
    /\ por = 0
    /\ ~lockedSince
    /\ sys_rst
    /\ relEdges = 1
    /\ counter = 0
    /\ sample = 0
    /\ clk_status = 0
    /\ clk_pad = 0

\* C20 as stated: in every reachable state, the one before the first edge of
\* the shifted clock included, clk.p and clk.n have opposite levels.
C20_AlwaysComplementary ==
    clk_p # clk_n

\* C20: differential memory clock output.  Before the first edge of the
\* shifted clock both serializer outputs hold their INIT level 0; in every
\* state after an edge clk.p is 1 after a rising and 0 after a falling edge
\* and clk.n is the reverse, so the two have opposite levels.
C20_ComplementaryAfterFirstEdge ==
    /\ ddr_edges = 0 => (clk_p = 0 /\ clk_n = 0)
    /\ ddr_edges >= 1 =>
          /\ clk_p = clk_shifted
          /\ clk_n = 1 - clk_shifted
          /\ clk_p # clk_n

\* after the first rising edge of the shifted clock
C20_Witness ==
    /\ ddr_edges = 1
    /\ clk_shifted = 1
    /\ clk_p = 1
    /\ clk_n = 0

====
